---- MODULE Spec2Model ----
(***************************************************************************)
(* Yaict dataset store: yaict/dataset_manager.py (DatasetManager,          *)
(* ImageInfo and the two module helpers), and yaict/image_manager.py       *)
(* (ImageManager), the manager the app constructs.                         *)
(*                                                                         *)
(* The store is a directory tree                                           *)
(*     <root>/images/<group>/<stem><suffix>     <root>/thumbnails/<id>.jpg *)
(* and an in-memory dict id_to_info.  A path is kept split the way pathlib *)
(* splits it: parent folder, stem and suffix.  File content is an opaque   *)
(* byte string; PIL can decode the ones in Decodable.                      *)
(***************************************************************************)
EXTENDS Naturals, Sequences, FiniteSets, TLC

\* ------------------------------------------------------------ bounds
\* Number of uuid4 values one run draws (new_image_id calls).
MaxIds == 2

\* ------------------------------------------------------------ values
\* Python's None.
NONE == "None"

\* uuid4 values in the order they are drawn; two draws never collide.
UuidPool == <<"u1", "u2", "u3", "u4", "u5", "u6", "u7", "u8">>

\* str.lower() on the suffixes that occur in this model.
Lower(ext) ==
  CASE ext = ".JPG" -> ".jpg"
    [] ext = ".PNG" -> ".png"
    [] ext = ".TXT" -> ".txt"
    [] OTHER -> ext

\* Byte strings PIL's Image.open accepts (and img.save can write as JPEG).
Decodable == {"IMG1", "IMG2"}

\* img.thumbnail((128, 128)) and img.save as JPEG: the thumbnail's bytes are
\* a function of the image's.
Thumbnail(c) == IF c = "IMG1" THEN "THUMB1" ELSE "THUMB2"

\* The literal lists of the source.
ImageExtensions == <<".jpg", ".jpeg", ".png">>
CaptionExtensions == <<".txt", ".caption">>
ThumbnailExtension == ".jpg"

\* ------------------------------------------------------------ helpers
Range(s) == {s[i] : i \in DOMAIN s}

\* Every order in which a directory listing may yield the entries S.
RECURSIVE Perms(_)
Perms(S) ==
  IF S = {} THEN {<<>>}
  ELSE UNION {{<<x>> \o p : p \in Perms(S \ {x})} : x \in S}

\* A faulty variant: the suffix is compared as written.
has_extension_CaseSensitive(suffix, extensions) ==
  suffix \in {extensions[i] : i \in DOMAIN extensions}

\* has_extension(file, extensions), given file.suffix.
has_extension(suffix, extensions) ==
  Lower(suffix) \in {Lower(extensions[i]) : i \in DOMAIN extensions}

\* find_file_with_extensions(folder, name, extensions), given the set of
\* suffixes e for which folder/name+e exists: the suffix of the first hit.
RECURSIVE find_file_with_extensions(_, _)
find_file_with_extensions(present, extensions) ==
  IF extensions = <<>> THEN NONE
  ELSE IF Head(extensions) \in present THEN Head(extensions)
  ELSE find_file_with_extensions(present, Tail(extensions))

\* ------------------------------------------------------------ the caller's files
\* Files outside the store, which the store never writes.  t is "file" or
\* "dir"; c is the content of a regular file.
SourceTree ==
  { [d |-> "in",   s |-> "cat",  e |-> ".jpg",     t |-> "file", c |-> "IMG1"],
    [d |-> "in",   s |-> "cat",  e |-> ".png",     t |-> "file", c |-> "IMG2"],
    [d |-> "in",   s |-> "cat",  e |-> ".txt",     t |-> "file", c |-> "T1"],
    [d |-> "in",   s |-> "cat",  e |-> ".caption", t |-> "file", c |-> "T2"],
    [d |-> "in2",  s |-> "dog",  e |-> ".PNG",     t |-> "file", c |-> "IMG2"],
    [d |-> "in2",  s |-> "dog",  e |-> ".caption", t |-> "file", c |-> "T2"],
    [d |-> "in2",  s |-> "readme", e |-> ".md",    t |-> "file", c |-> "T1"],
    [d |-> "in2",  s |-> "raw",  e |-> "",         t |-> "dir",  c |-> ""],
    [d |-> "in3",  s |-> "cat",  e |-> ".jpg",     t |-> "file", c |-> "IMG1"],
    [d |-> "in3",  s |-> "pics", e |-> ".jpg",     t |-> "dir",  c |-> ""],
    [d |-> "in4",  s |-> "owl",  e |-> ".gif",     t |-> "file", c |-> "IMG2"],
    [d |-> "junk", s |-> "bad",  e |-> ".jpg",     t |-> "file", c |-> "JUNK"],
    [d |-> "junk", s |-> "bad",  e |-> ".txt",     t |-> "dir",  c |-> ""] }

SrcPath(x) == [d |-> x.d, s |-> x.s, e |-> x.e]
SrcPaths == {SrcPath(x) : x \in SourceTree}
SrcExists(p) == p \in SrcPaths
SrcEntry(p) == CHOOSE x \in SourceTree : SrcPath(x) = p
SrcListing(folder) == {SrcPath(x) : x \in {y \in SourceTree : y.d = folder}}
\* Suffixes e with folder/name+e present.
SrcSuffixes(folder, name) ==
  {x.e : x \in {y \in SourceTree : y.d = folder /\ y.s = name}}

MissingImage == [d |-> "in", s |-> "nope", e |-> ".jpg"]
MissingCaption == [d |-> "in", s |-> "nope", e |-> ".txt"]

\* ------------------------------------------------------------ the store
\* Optional[Path] / Optional[ImageInfo]: Python's None where a path or a
\* record is expected.
Absent == [none |-> TRUE]

\* image_dir / group / stem+suffix, and thumbnail_dir / stem+suffix.
ImageFile(group, stem, suffix) ==
  [top |-> "images", g |-> group, s |-> stem, e |-> suffix]
ThumbFile(stem, suffix) ==
  [top |-> "thumbnails", g |-> "", s |-> stem, e |-> suffix]
GroupFolder(group) == [top |-> "images", g |-> group]
Parent(p) == IF p.top = "images" THEN GroupFolder(p.g) ELSE [top |-> p.top]

VARIABLES
  phase,          \* "start": no manager yet; "live": constructed; "crashed": __init__ raised
  base_dir,       \* TRUE iff <root> exists
  image_dir,      \* TRUE iff <root>/images exists
  thumbnail_dir,  \* TRUE iff <root>/thumbnails exists
  groups,         \* names of the subfolders of images/
  loose,          \* regular files lying directly in images/, as <<stem, suffix>>
  files,          \* regular files of the store: path |-> content
  id_to_info,     \* the dict, in insertion order: a sequence of ImageInfo
  uuids,          \* number of uuid4 values drawn
  ingested,       \* history: <<id, source path>> of every add_image that returned
  last            \* history: the last call and its outcome

vars == <<phase, base_dir, image_dir, thumbnail_dir, groups, loose, files,
          id_to_info, uuids, ingested, last>>

\* ------------------------------------------------------------ ImageInfo
ImageInfo(image_id, group_name, image_extension, thumbnail_extension, caption_extension) ==
  [image_id |-> image_id, group_name |-> group_name,
   image_extension |-> image_extension,
   thumbnail_extension |-> thumbnail_extension,
   caption_extension |-> caption_extension]

Info_get_image_path(info) ==
  ImageFile(info.group_name, info.image_id, info.image_extension)

\* "if self.caption_extension:" is false for None and for the empty string.
Info_get_caption_path(info) ==
  IF info.caption_extension # NONE /\ info.caption_extension # ""
  THEN ImageFile(info.group_name, info.image_id, info.caption_extension)
  ELSE Absent

Info_get_relative_thumbnail_path(info) ==
  ThumbFile(info.image_id, info.thumbnail_extension)

Info_get_containing_folder(info) == GroupFolder(info.group_name)

\* ------------------------------------------------------------ the dict
Keys(reg) == [i \in DOMAIN reg |-> reg[i].image_id]
HasKey(reg, image_id) == \E i \in DOMAIN reg : reg[i].image_id = image_id
Index(reg, image_id) == CHOOSE i \in DOMAIN reg : reg[i].image_id = image_id

\* A faulty variant: a new key goes first.
DictSet_Prepend(reg, info) ==
  IF HasKey(reg, info.image_id)
  THEN [reg EXCEPT ![Index(reg, info.image_id)] = info]
  ELSE <<info>> \o reg

\* reg[image_id] = info: a new key goes last, an old key keeps its place.
DictSet(reg, info) ==
  IF HasKey(reg, info.image_id)
  THEN [reg EXCEPT ![Index(reg, info.image_id)] = info]
  ELSE Append(reg, info)

\* ------------------------------------------------------------ lookups
get_info_by_id_in(reg, image_id) ==
  IF HasKey(reg, image_id) THEN reg[Index(reg, image_id)] ELSE Absent

get_info_by_id(image_id) == get_info_by_id_in(id_to_info, image_id)

get_all_images == Keys(id_to_info)

get_thumbnail_path_by_id(image_id) ==
  IF ThumbFile(image_id, ".jpg") \in DOMAIN files
  THEN ThumbFile(image_id, ".jpg")
  ELSE Absent

get_image_path(image_id) ==
  IF get_info_by_id(image_id) # Absent
  THEN Info_get_image_path(get_info_by_id(image_id))
  ELSE Absent

get_caption_path(image_id) ==
  IF get_info_by_id(image_id) # Absent
  THEN Info_get_caption_path(get_info_by_id(image_id))
  ELSE Absent

\* A faulty variant: the path is returned only when the thumbnail file exists.
get_relative_thumbnail_path_Checked(image_id) ==
  IF get_info_by_id(image_id) # Absent /\ ThumbFile(image_id, ".jpg") \in DOMAIN files
  THEN Info_get_relative_thumbnail_path(get_info_by_id(image_id))
  ELSE Absent

get_relative_thumbnail_path(image_id) ==
  IF get_info_by_id(image_id) # Absent
  THEN Info_get_relative_thumbnail_path(get_info_by_id(image_id))
  ELSE Absent

get_containing_folder(image_id) ==
  IF get_info_by_id(image_id) # Absent
  THEN Info_get_containing_folder(get_info_by_id(image_id))
  ELSE Absent

\* ------------------------------------------------------------ ingestion
\* What the ingestion code reads and writes, so that add_images_from_folder
\* can run add_image several times within one call.
World == [groups |-> groups, files |-> files, id_to_info |-> id_to_info,
          uuids |-> uuids, ingested |-> ingested]

Raised(w, err) == [w |-> w, ok |-> FALSE, ret |-> NONE, err |-> err]
Returned(w, ret) == [w |-> w, ok |-> TRUE, ret |-> ret, err |-> NONE]

\* new_image_id: the next uuid4 value.
new_image_id(w) == UuidPool[w.uuids + 1]

\* A faulty variant: the copy is always named <id>.jpg, whatever the source's suffix.
DestinationImagePath_AlwaysJpg(group, image_id, source_image_extension) ==
  ImageFile(group, image_id, ".jpg")

\* destination_folder / f"{image_id}{source_image_extension}"
DestinationImagePath(group, image_id, source_image_extension) ==
  ImageFile(group, image_id, source_image_extension)

\* The last statement of add_image: the record is stored once every write
\* has succeeded.
StoreInfo(w, info) == [w EXCEPT !.id_to_info = DictSet(w.id_to_info, info)]

\* The thumbnail block of add_image: Image.open of the copied image, then
\* img.save to thumbnails/<id>.jpg.
MakeThumbnail(w, image_id, destination_image_path) ==
  IF w.files[destination_image_path] \notin Decodable
  THEN Raised(w, "UnidentifiedImageError")
  ELSE IF ~thumbnail_dir
  THEN Raised(w, "FileNotFoundError")
  ELSE Returned([w EXCEPT !.files =
                   (ThumbFile(image_id, ".jpg") :> Thumbnail(w.files[destination_image_path]))
                     @@ w.files], image_id)

\* A faulty variant: the caption suffixes are probed in the opposite order.
MatchCaption_LastWins(w, image_path, image_id, match_caption) ==
  LET found == find_file_with_extensions(
                 SrcSuffixes(image_path.d, image_path.s), <<".caption", ".txt">>)
  IN  IF ~match_caption \/ found = NONE
      THEN Returned(w, NONE)
      ELSE LET src == SrcEntry([d |-> image_path.d, s |-> image_path.s, e |-> found])
           IN  IF src.t = "dir"
               THEN Raised(w, "IsADirectoryError")
               ELSE Returned([w EXCEPT !.files =
                       (ImageFile(image_path.s, image_id, found) :> src.c) @@ w.files],
                     found)

\* The caption block of add_image: the caption suffix (None when nothing is
\* copied) and the world after the copy.
MatchCaption(w, image_path, image_id, match_caption) ==
  LET found == find_file_with_extensions(
                 SrcSuffixes(image_path.d, image_path.s), CaptionExtensions)
  IN  IF ~match_caption \/ found = NONE
      THEN Returned(w, NONE)
      ELSE LET src == SrcEntry([d |-> image_path.d, s |-> image_path.s, e |-> found])
           IN  IF src.t = "dir"
               THEN Raised(w, "IsADirectoryError")
               ELSE Returned([w EXCEPT !.files =
                       (ImageFile(image_path.s, image_id, found) :> src.c) @@ w.files],
                     found)

\* A faulty variant: the record is stored before the thumbnail is made.
add_image_StoreFirst(w, image_path, match_caption) ==
  IF ~SrcExists(image_path)
  THEN Raised(w, "FileNotFoundError")
  ELSE
    LET image_id == new_image_id(w)
        w1 == [w EXCEPT !.uuids = @ + 1]
        destination_image_path == DestinationImagePath(image_path.s, image_id, image_path.e)
    IN
    IF <<image_path.s, "">> \in loose
    THEN Raised(w1, "FileExistsError")
    ELSE
      LET w2 == [w1 EXCEPT !.groups = @ \cup {image_path.s}] IN
      IF SrcEntry(image_path).t = "dir"
      THEN Raised(w2, "IsADirectoryError")
      ELSE
        LET w3 == [w2 EXCEPT !.files =
                     (destination_image_path :> SrcEntry(image_path).c) @@ w2.files]
            cap == MatchCaption(w3, image_path, image_id, match_caption)
        IN
        IF ~cap.ok THEN cap
        ELSE
          LET stored == StoreInfo(cap.w,
                          ImageInfo(image_id, image_path.s, image_path.e, ".jpg", cap.ret))
              thumb == MakeThumbnail(stored, image_id, destination_image_path)
          IN  IF ~thumb.ok THEN thumb
              ELSE Returned(
                     [thumb.w EXCEPT !.ingested = Append(@, <<image_id, image_path>>)],
                     image_id)

add_image(w, image_path, match_caption) ==
  IF ~SrcExists(image_path)
  THEN Raised(w, "FileNotFoundError")
  ELSE
    LET source_image_file_name == image_path.s
        source_image_extension == image_path.e
        image_id == new_image_id(w)
        w1 == [w EXCEPT !.uuids = @ + 1]
        destination_image_path ==
          DestinationImagePath(source_image_file_name, image_id, source_image_extension)
    IN
    \* destination_folder.mkdir(parents=True, exist_ok=True)
    IF <<source_image_file_name, "">> \in loose
    THEN Raised(w1, "FileExistsError")
    ELSE
      LET w2 == [w1 EXCEPT !.groups = @ \cup {source_image_file_name}] IN
      \* shutil.copy(image_path, destination_image_path)
      IF SrcEntry(image_path).t = "dir"
      THEN Raised(w2, "IsADirectoryError")
      ELSE
        LET w3 == [w2 EXCEPT !.files =
                     (destination_image_path :> SrcEntry(image_path).c) @@ w2.files]
            cap == MatchCaption(w3, image_path, image_id, match_caption)
        IN
        IF ~cap.ok THEN cap
        ELSE
          LET thumb == MakeThumbnail(cap.w, image_id, destination_image_path) IN
          IF ~thumb.ok THEN thumb
          ELSE Returned(
                 [StoreInfo(thumb.w,
                    ImageInfo(image_id, source_image_file_name,
                              source_image_extension, ThumbnailExtension, cap.ret))
                  EXCEPT !.ingested = Append(@, <<image_id, image_path>>)],
                 image_id)

\* One step of the loop of add_images_from_folder over the listing `order`;
\* ids are the identifiers collected so far.
RECURSIVE FolderLoop(_, _, _, _, _)
FolderLoop(w, order, extensions, include_captions, ids) ==
  IF order = <<>> THEN Returned(w, ids)
  ELSE IF ~has_extension(Head(order).e, extensions)
  THEN FolderLoop(w, Tail(order), extensions, include_captions, ids)
  ELSE LET r == add_image(w, Head(order), include_captions) IN
       IF ~r.ok THEN [w |-> r.w, ok |-> FALSE, ret |-> ids, err |-> r.err]
       ELSE FolderLoop(r.w, Tail(order), extensions, include_captions,
                       Append(ids, r.ret))

\* add_images_from_folder under the listing order `order` of the folder.
add_images_from_folder(w, order, extensions, include_captions) ==
  FolderLoop(w, order, extensions, include_captions, <<>>)

\* ------------------------------------------------------------ construction
\* Entries of images/: the group subfolders and the loose regular files.
ImagesListing ==
  {[s |-> g, e |-> "", t |-> "dir"] : g \in groups} \cup
  {[s |-> l[1], e |-> l[2], t |-> "file"] : l \in loose}

\* Entries of images/<group>/ (regular files only: the store never makes a
\* directory inside a group folder).
GroupListing(fs, group) ==
  {p \in DOMAIN fs : p.top = "images" /\ p.g = group}

\* Suffixes e with images/<group>/<name><e> present.
StoreSuffixes(fs, group, name) ==
  {p.e : p \in {q \in GroupListing(fs, group) : q.s = name}}

\* The body of the inner loop of load_existing_images for one file.
LoadFile(reg, file) ==
  IF has_extension(file.e, ImageExtensions)
  THEN LET image_id == file.s
           caption_ext == find_file_with_extensions(
                            StoreSuffixes(files, file.g, image_id), CaptionExtensions)
       IN  DictSet(reg, ImageInfo(image_id, file.g, file.e, ThumbnailExtension,
                                  caption_ext))
  ELSE reg

RECURSIVE LoadFolder(_, _)
LoadFolder(reg, fileOrder) ==
  IF fileOrder = <<>> THEN reg
  ELSE LoadFolder(LoadFile(reg, Head(fileOrder)), Tail(fileOrder))

\* load_existing_images under the listing order folderOrder of images/: the
\* registries it may end with, one for each order in which the group folders
\* list their files.  regs are the registries possible so far.
RECURSIVE load_existing_images(_, _)
load_existing_images(regs, folderOrder) ==
  IF folderOrder = <<>> THEN regs
  ELSE IF Head(folderOrder).t = "dir"
  THEN load_existing_images(
         {LoadFolder(reg, fileOrder) :
            reg \in regs,
            fileOrder \in Perms(GroupListing(files, Head(folderOrder).s))},
         Tail(folderOrder))
  ELSE load_existing_images(regs, Tail(folderOrder))

NoCall == [op |-> "none", ok |-> TRUE, err |-> NONE, id |-> NONE, src |-> Absent,
           text |-> "", added |-> <<>>, ret |-> <<>>, match |-> FALSE]

\* ------------------------------------------------------------ initial trees
Tree(base, image, thumb, gs, ls, fs) ==
  [base |-> base, image |-> image, thumb |-> thumb, groups |-> gs,
   loose |-> ls, files |-> fs]

NoFiles == [p \in {} |-> ""]

\* A tree left by an earlier run or made by hand: g/a.jpg with the caption
\* g/a.txt and no thumbnail, g/c.gif with a thumbnail, and images/x.jpg.
PopulatedFiles ==
  (ImageFile("g", "a", ".jpg") :> "IMG1") @@
  (ImageFile("g", "a", ".txt") :> "T1") @@
  (ImageFile("g", "c", ".gif") :> "IMG2") @@
  (ThumbFile("c", ".jpg") :> "THUMB2")

InitialTrees ==
  { Tree(FALSE, FALSE, FALSE, {}, {}, NoFiles),
    Tree(TRUE, TRUE, TRUE, {}, {}, NoFiles),
    Tree(TRUE, FALSE, TRUE, {}, {}, NoFiles),
    Tree(TRUE, TRUE, FALSE, {}, {}, NoFiles),
    Tree(TRUE, TRUE, TRUE, {"g"}, {<<"x", ".jpg">>}, PopulatedFiles) }

InitFrom(trees) ==
  \E t \in trees :
    /\ phase = "start"
    /\ base_dir = t.base
    /\ image_dir = t.image
    /\ thumbnail_dir = t.thumb
    /\ groups = t.groups
    /\ loose = t.loose
    /\ files = t.files
    /\ id_to_info = <<>>
    /\ uuids = 0
    /\ ingested = <<>>
    /\ last = NoCall

Init == InitFrom(InitialTrees)

\* Trees made by hand, for the scan: any of these files, in the group folders
\* g and h, with or without a regular file lying in images/ itself.
ScanCandidates ==
  { <<ImageFile("g", "a", ".jpg"), "IMG1">>,
    <<ImageFile("g", "a", ".PNG"), "IMG2">>,
    <<ImageFile("h", "a", ".jpeg"), "IMG1">>,
    <<ImageFile("g", "a", ".txt"), "T1">>,
    <<ImageFile("g", "a", ".caption"), "T2">>,
    <<ImageFile("h", "a", ".caption"), "T2">>,
    <<ImageFile("g", "b", ".png"), "IMG2">>,
    <<ImageFile("g", "c", ".gif"), "IMG2">> }

ScanTrees ==
  { Tree(TRUE, TRUE, TRUE, {"g", "h"}, ls,
         [p \in {x[1] : x \in chosen} |->
            (CHOOSE x \in chosen : x[1] = p)[2]]) :
      chosen \in SUBSET ScanCandidates, ls \in {{}, {<<"x", ".jpg">>}} }

InitScan == InitFrom(ScanTrees)

\* ------------------------------------------------------------ actions
\* DatasetManager.__init__(base_dir); op names the call in the history.
DatasetManager_init(op) ==
  /\ IF ~base_dir
     THEN \* setup_folders
          /\ base_dir' = TRUE
          /\ image_dir' = TRUE
          /\ thumbnail_dir' = TRUE
          /\ id_to_info' = <<>>
          /\ phase' = "live"
          /\ last' = [NoCall EXCEPT !.op = op]
     ELSE IF ~image_dir
     THEN \* image_dir.iterdir() raises
          /\ phase' = "crashed"
          /\ last' = [NoCall EXCEPT !.op = op, !.ok = FALSE,
                                    !.err = "FileNotFoundError"]
          /\ UNCHANGED <<base_dir, image_dir, thumbnail_dir, id_to_info>>
     ELSE \E folderOrder \in Perms(ImagesListing) :
          /\ id_to_info' \in load_existing_images({<<>>}, folderOrder)
          /\ phase' = "live"
          /\ last' = [NoCall EXCEPT !.op = op]
          /\ UNCHANGED <<base_dir, image_dir, thumbnail_dir>>
  /\ UNCHANGED <<groups, loose, files, uuids, ingested>>

\* DatasetManager(base_dir), the first of the run.
Construct ==
  /\ phase = "start"
  /\ DatasetManager_init("construct")

\* DatasetManager(base_dir) again over the root a live manager has worked on:
\* the new manager's registry replaces the old one's.
Restart ==
  /\ phase = "live"
  /\ DatasetManager_init("restart")

\* The paths callers hand to add_image.
AddImageArgs ==
  { [d |-> "in", s |-> "cat", e |-> ".jpg"],
    [d |-> "in", s |-> "cat", e |-> ".png"],
    [d |-> "in2", s |-> "dog", e |-> ".PNG"],
    [d |-> "in3", s |-> "pics", e |-> ".jpg"],
    [d |-> "junk", s |-> "bad", e |-> ".jpg"],
    MissingImage }

SetWorld(w) ==
  /\ groups' = w.groups
  /\ files' = w.files
  /\ id_to_info' = w.id_to_info
  /\ uuids' = w.uuids
  /\ ingested' = w.ingested

\* add_image(image_path, match_caption), image_path drawn from args.
AddImageOf(args) ==
  /\ phase = "live"
  /\ \E image_path \in args : \E match_caption \in BOOLEAN :
       /\ SrcExists(image_path) => uuids < MaxIds
       /\ LET r == add_image(World, image_path, match_caption) IN
          /\ SetWorld(r.w)
          /\ last' = [NoCall EXCEPT !.op = "add_image", !.ok = r.ok, !.err = r.err,
                        !.id = r.ret, !.src = image_path, !.match = match_caption,
                        !.added = IF r.ok THEN <<r.ret>> ELSE <<>>]
  /\ UNCHANGED <<phase, base_dir, image_dir, thumbnail_dir, loose>>

AddImage == AddImageOf(AddImageArgs)

\* The folders and extension lists callers hand to add_images_from_folder.
FolderArgs == {"in", "in2", "in3"}
ExtensionArgs == {ImageExtensions, <<".png">>}

\* Calls of add_image the loop makes on `folder`: one per matching entry.
Matching(folder, extensions) ==
  {p \in SrcListing(folder) : has_extension(p.e, extensions)}

\* folder.iterdir() yields the entries in an order the file system chooses.
\* The loop acts on the matching entries only, so two listings that put
\* them in the same order are one case: the listings, cut to those entries.
ListingOrders ==
  [folder \in FolderArgs, extensions \in ExtensionArgs |->
     {SelectSeq(o, LAMBDA p : has_extension(p.e, extensions)) :
        o \in Perms(SrcListing(folder))}]

\* add_images_from_folder(folder, extensions, include_captions)
AddImagesFromFolder ==
  /\ phase = "live"
  /\ \E folder \in FolderArgs : \E extensions \in ExtensionArgs :
     \E include_captions \in BOOLEAN :
       /\ uuids + Cardinality(Matching(folder, extensions)) <= MaxIds
       /\ \E order \in ListingOrders[folder, extensions] :
          LET r == add_images_from_folder(World, order, extensions, include_captions) IN
          /\ SetWorld(r.w)
          /\ last' = [NoCall EXCEPT !.op = "add_images_from_folder", !.ok = r.ok,
                        !.err = r.err,
                        !.src = [d |-> folder, x |-> extensions,
                                 c |-> include_captions, o |-> order],
                        !.added = r.ret, !.ret = IF r.ok THEN r.ret ELSE <<>>]
  /\ UNCHANGED <<phase, base_dir, image_dir, thumbnail_dir, loose>>

\* The identifiers callers hand to the caption calls: every uuid4 value that
\* may have been drawn (known once add_image has returned it, unknown before
\* and after a failed add_image), and "c", the stem of files that lie in the
\* initial tree without a record.
IdArgs == {UuidPool[i] : i \in 1..MaxIds} \cup {"c"}
CaptionTexts == {"hello"}
CaptionSourceArgs ==
  { [d |-> "in", s |-> "cat", e |-> ".txt"],
    [d |-> "in2", s |-> "dog", e |-> ".caption"],
    MissingCaption }

\* A faulty variant: the record keeps the caption extension it had.
SetCaptionExtension_Forgotten(reg, image_id, ext) == reg

\* image_info.caption_extension = ext, on the record the dict holds.
SetCaptionExtension(reg, image_id, ext) ==
  [reg EXCEPT ![Index(reg, image_id)].caption_extension = ext]

\* A faulty variant: an unknown id is ignored instead of raising.
set_caption_Silent(w, image_id, caption) ==
  IF get_info_by_id_in(w.id_to_info, image_id) = Absent
  THEN Returned(w, NONE)
  ELSE LET image_info == get_info_by_id_in(w.id_to_info, image_id)
           caption_file_path == ImageFile(image_info.group_name, image_id, ".txt")
       IN  Returned([w EXCEPT
                       !.files = (caption_file_path :> caption) @@ w.files,
                       !.id_to_info = SetCaptionExtension(w.id_to_info, image_id, ".txt")],
                    NONE)

\* set_caption(image_id, caption)
set_caption(w, image_id, caption) ==
  IF get_info_by_id_in(w.id_to_info, image_id) = Absent
  THEN Raised(w, "ValueError")
  ELSE LET image_info == get_info_by_id_in(w.id_to_info, image_id)
           caption_file_path == ImageFile(image_info.group_name, image_id, ".txt")
       IN  Returned([w EXCEPT
                       !.files = (caption_file_path :> caption) @@ w.files,
                       !.id_to_info = SetCaptionExtension(w.id_to_info, image_id, ".txt")],
                    NONE)

\* copy_caption_file(image_id, source_file_path)
copy_caption_file(w, image_id, source_file_path) ==
  IF ~SrcExists(source_file_path)
  THEN Raised(w, "FileNotFoundError")
  ELSE IF get_info_by_id_in(w.id_to_info, image_id) = Absent
  THEN Raised(w, "ValueError")
  ELSE LET image_info == get_info_by_id_in(w.id_to_info, image_id)
           caption_file_path == ImageFile(image_info.group_name, image_id, ".txt")
       IN  IF SrcEntry(source_file_path).t = "dir"
           THEN Raised(w, "IsADirectoryError")
           ELSE Returned([w EXCEPT
                       !.files = (caption_file_path :> SrcEntry(source_file_path).c)
                                   @@ w.files,
                       !.id_to_info = SetCaptionExtension(w.id_to_info, image_id,
                                                          source_file_path.e)],
                    NONE)

SetCaption ==
  /\ phase = "live"
  /\ \E image_id \in IdArgs : \E caption \in CaptionTexts :
       LET r == set_caption(World, image_id, caption) IN
       /\ SetWorld(r.w)
       /\ last' = [NoCall EXCEPT !.op = "set_caption", !.ok = r.ok, !.err = r.err,
                     !.id = image_id, !.text = caption]
  /\ UNCHANGED <<phase, base_dir, image_dir, thumbnail_dir, loose>>

CopyCaptionFile ==
  /\ phase = "live"
  /\ \E image_id \in IdArgs : \E source_file_path \in CaptionSourceArgs :
       LET r == copy_caption_file(World, image_id, source_file_path) IN
       /\ SetWorld(r.w)
       /\ last' = [NoCall EXCEPT !.op = "copy_caption_file", !.ok = r.ok,
                     !.err = r.err, !.id = image_id, !.src = source_file_path]
  /\ UNCHANGED <<phase, base_dir, image_dir, thumbnail_dir, loose>>

Next ==
  \/ Construct
  \/ AddImage
  \/ AddImagesFromFolder
  \/ SetCaption
  \/ CopyCaptionFile

Spec == Init /\ [][Next]_vars

\* Construction alone, over the hand-made trees.
NextScan == Construct

SpecScan == InitScan /\ [][NextScan]_vars

\* Restarts between add_image, set_caption and copy_caption_file calls that
\* all return.  An image PIL decodes is accepted
\* by add_image under any suffix; in4/owl.gif is one.
RestartImageArgs ==
  { [d |-> "in", s |-> "cat", e |-> ".jpg"],
    [d |-> "in2", s |-> "dog", e |-> ".PNG"],
    [d |-> "in4", s |-> "owl", e |-> ".gif"] }

AddImageOk == AddImageOf(RestartImageArgs) /\ last'.ok
SetCaptionOk == SetCaption /\ last'.ok
CopyCaptionFileOk == CopyCaptionFile /\ last'.ok

NextRestart ==
  \/ Construct
  \/ AddImageOk
  \/ SetCaptionOk
  \/ CopyCaptionFileOk
  \/ Restart

SpecRestart == Init /\ [][NextRestart]_vars

\* ------------------------------------------------------------ ImageManager
\* yaict/image_manager.py, the manager app.py constructs.  Its tree is
\*     <base_dir>/<stem>/<id>.jpg     <base_dir>/thumbnails/<id>.jpg
\* so thumbnails/ is one of the folders of base_dir.  image_map is kept in
\* id_to_info, in insertion order, as records [image_id, path]; image_dir and
\* loose are not used.

\* base_dir / folder / stem+suffix
BaseFile(folder, stem, suffix) ==
  [top |-> folder, g |-> "", s |-> stem, e |-> suffix]

\* The subfolders of base_dir.
BaseFolders == groups \cup (IF thumbnail_dir THEN {"thumbnails"} ELSE {})

\* The regular files of base_dir/<folder>.
FolderFiles(fs, folder) == {p \in DOMAIN fs : p.top = folder}

\* The files load_existing_images registers, in the order it meets them,
\* under the listing order folderOrder of base_dir: one sequence for each
\* order in which the folders list their files.
RECURSIVE ImageManager_load_existing_images(_, _)
ImageManager_load_existing_images(fs, folderOrder) ==
  IF folderOrder = <<>> THEN {<<>>}
  ELSE {here \o rest :
          here \in Perms(FolderFiles(fs, Head(folderOrder))),
          rest \in ImageManager_load_existing_images(fs, Tail(folderOrder))}

\* image_map after load_existing_images met the files `found`: each gets a
\* fresh uuid4 value.
ImageMapOf(found, drawn) ==
  [i \in DOMAIN found |-> [image_id |-> UuidPool[drawn + i], path |-> found[i]]]

\* ImageManager.get_all_images
ImageManager_get_all_images == [i \in DOMAIN id_to_info |-> id_to_info[i].image_id]

\* ImageManager.__init__(base_dir); op names the call in the history.
ImageManager_init(op) ==
  /\ IF ~base_dir
     THEN \* setup_folders
          /\ base_dir' = TRUE
          /\ thumbnail_dir' = TRUE
          /\ id_to_info' = <<>>
          /\ uuids' = uuids
     ELSE \E folderOrder \in Perms(BaseFolders) :
          \E found \in ImageManager_load_existing_images(files, folderOrder) :
            /\ uuids + Len(found) <= Len(UuidPool)
            /\ id_to_info' = ImageMapOf(found, uuids)
            /\ uuids' = uuids + Len(found)
            /\ UNCHANGED <<base_dir, thumbnail_dir>>
  /\ phase' = "live"
  /\ last' = [NoCall EXCEPT !.op = op]
  /\ UNCHANGED <<image_dir, groups, loose, files, ingested>>

\* ImageManager.add_image(image_path)
ImageManager_add_image(w, image_path) ==
  IF ~SrcExists(image_path)
  THEN Raised(w, "FileNotFoundError")
  ELSE
    LET image_id == new_image_id(w)
        w1 == [w EXCEPT !.uuids = @ + 1, !.groups = @ \cup {image_path.s}]
        destination_image_path == BaseFile(image_path.s, image_id, ".jpg")
    IN
    \* shutil.copy(image_path, destination_image_path)
    IF SrcEntry(image_path).t = "dir"
    THEN Raised(w1, "IsADirectoryError")
    ELSE
      LET w2 == [w1 EXCEPT !.files =
                   (destination_image_path :> SrcEntry(image_path).c) @@ w1.files]
      IN
      \* Image.open(image_path), img.save(thumbnail_path)
      IF SrcEntry(image_path).c \notin Decodable
      THEN Raised(w2, "UnidentifiedImageError")
      ELSE IF ~thumbnail_dir
      THEN Raised(w2, "FileNotFoundError")
      ELSE Returned(
             [w2 EXCEPT
                !.files = (ThumbFile(image_id, ".jpg") :> Thumbnail(SrcEntry(image_path).c))
                            @@ w2.files,
                !.id_to_info = Append(@, [image_id |-> image_id,
                                          path |-> destination_image_path]),
                !.ingested = Append(@, <<image_id, image_path>>)],
             image_id)

\* The roots an ImageManager is constructed over: absent, holding an empty
\* thumbnails/, and empty.
ImageManagerTrees ==
  { Tree(FALSE, FALSE, FALSE, {}, {}, NoFiles),
    Tree(TRUE, FALSE, TRUE, {}, {}, NoFiles),
    Tree(TRUE, FALSE, FALSE, {}, {}, NoFiles) }

InitImageManager == InitFrom(ImageManagerTrees)

\* The paths callers hand to ImageManager.add_image.
ImageManagerArgs ==
  { [d |-> "in", s |-> "cat", e |-> ".jpg"],
    [d |-> "in2", s |-> "dog", e |-> ".PNG"],
    [d |-> "junk", s |-> "bad", e |-> ".jpg"],
    MissingImage }

\* ImageManager(base_dir), the first of the run.
ImageManagerConstruct ==
  /\ phase = "start"
  /\ ImageManager_init("construct")

\* ImageManager(base_dir) again over the directory a live manager has worked
\* on, as each start of the app does.
ImageManagerRestart ==
  /\ phase = "live"
  /\ ImageManager_init("restart")

\* Files add_image has copied into the folders other than thumbnails/.
CopiedImages == {p \in DOMAIN files : p.top # "thumbnails"}

ImageManagerAddImage ==
  /\ phase = "live"
  /\ \E image_path \in ImageManagerArgs :
       /\ SrcExists(image_path) =>
            /\ Cardinality(CopiedImages) < MaxIds
            /\ uuids < Len(UuidPool)
       /\ LET r == ImageManager_add_image(World, image_path) IN
          /\ SetWorld(r.w)
          /\ last' = [NoCall EXCEPT !.op = "add_image", !.ok = r.ok, !.err = r.err,
                        !.id = r.ret, !.src = image_path,
                        !.added = IF r.ok THEN <<r.ret>> ELSE <<>>]
  /\ UNCHANGED <<phase, base_dir, image_dir, thumbnail_dir, loose>>

NextImageManager ==
  \/ ImageManagerConstruct
  \/ ImageManagerAddImage
  \/ ImageManagerRestart

SpecImageManager == InitImageManager /\ [][NextImageManager]_vars

C2_Step ==
  (phase = "live" /\ phase' = "live") =>
    /\ get_all_images' = get_all_images \o last'.added
    /\ last'.op = "add_image" => (Len(last'.added) = IF last'.ok THEN 1 ELSE 0)
    /\ (last'.op = "add_images_from_folder" /\ last'.ok) => last'.added = last'.ret
    /\ last'.op \in {"set_caption", "copy_caption_file"} => last'.added = <<>>
    /\ \A i, j \in DOMAIN get_all_images' :
         get_all_images'[i] = get_all_images'[j] => i = j

\* C2: every step of a live manager extends get_all_images by exactly the ids
\* the call ingested, in insertion order, and by nothing else.
C2_ListGrowsInInsertionOrder == [][C2_Step]_vars

\* C2 witness: a folder call that added two ids behind an older one.
C2_Witness ==
  /\ last.op = "add_images_from_folder"
  /\ last.ok
  /\ Len(last.ret) = 2
  /\ Len(id_to_info) = 3

\* C3: set_caption(id, text) on a known id leaves get_caption_path(id) =
\* images/<group>/<id>.txt, holding exactly text, beside the image, and the
\* record's caption extension ".txt".
C3_SetCaptionWritesTxt ==
  last.op = "set_caption" =>
    /\ last.ok <=> HasKey(id_to_info, last.id)
    /\ last.ok =>
         LET info == get_info_by_id(last.id) IN
         /\ get_caption_path(last.id) = ImageFile(info.group_name, last.id, ".txt")
         /\ get_caption_path(last.id) \in DOMAIN files
         /\ files[get_caption_path(last.id)] = last.text
         /\ Parent(get_caption_path(last.id)) = Parent(get_image_path(last.id))
         /\ info.caption_extension = ".txt"

\* C3 witness: a caption set on a record whose caption was a .caption file.
C3_Witness ==
  /\ last.op = "set_caption"
  /\ last.ok
  /\ ImageFile(get_info_by_id(last.id).group_name, last.id, ".caption") \in DOMAIN files
  /\ files[ImageFile(get_info_by_id(last.id).group_name, last.id, ".caption")] = "T2"
  /\ files[get_caption_path(last.id)] = "hello"

\* C4 (as claimed): copy_caption_file(id, source) on a known id and an
\* existing source with suffix E leaves images/<group>/<id><E> holding the
\* source's content, the record's caption extension E, and get_caption_path(id)
\* an existing file with that content.
C4_CopyKeepsSourceExtension ==
  (last.op = "copy_caption_file" /\ HasKey(id_to_info, last.id) /\ SrcExists(last.src)) =>
    /\ last.ok
    /\ LET info == get_info_by_id(last.id)
           target == ImageFile(info.group_name, last.id, last.src.e)
       IN  /\ target \in DOMAIN files
           /\ files[target] = SrcEntry(last.src).c
           /\ info.caption_extension = last.src.e
           /\ get_caption_path(last.id) \in DOMAIN files
           /\ files[get_caption_path(last.id)] = SrcEntry(last.src).c

\* C5 (as claimed): every record's image file exists, and its caption file
\* exists when its caption extension is not None.
C5_RecordFilesExist ==
  \A i \in DOMAIN id_to_info :
    LET info == id_to_info[i] IN
    /\ ImageFile(info.group_name, info.image_id, info.image_extension) \in DOMAIN files
    /\ info.caption_extension # NONE =>
         ImageFile(info.group_name, info.image_id, info.caption_extension) \in DOMAIN files

\* Identifiers the lookups are probed with.
ProbeIds == IdArgs \cup {"a", "c", "zz"}

\* C6, queries: an identifier the registry lacks gets None from every lookup
\* that goes through the registry.
C6_Lookups ==
  \A image_id \in ProbeIds :
    ~HasKey(id_to_info, image_id) =>
      /\ get_image_path(image_id) = Absent
      /\ get_caption_path(image_id) = Absent
      /\ get_relative_thumbnail_path(image_id) = Absent
      /\ get_containing_folder(image_id) = Absent
      /\ get_info_by_id(image_id) = Absent

\* C6, commands: set_caption and copy_caption_file (of an existing source) on
\* an identifier the registry lacks raise and change neither registry nor disk.
C6_Step ==
  ( /\ last'.op \in {"set_caption", "copy_caption_file"}
    /\ ~HasKey(id_to_info, last'.id)
    /\ last'.op = "copy_caption_file" => SrcExists(last'.src) ) =>
    /\ ~last'.ok
    /\ last'.err = "ValueError"
    /\ UNCHANGED <<id_to_info, files, groups, loose, base_dir, image_dir, thumbnail_dir>>

\* C6: unknown identifiers: queries return None, commands raise and change nothing.
C6_UnknownIdentifiers == []C6_Lookups /\ [][C6_Step]_vars

\* C6 witness: copy_caption_file of an existing source raised for an id the
\* registry lacks although files named after it lie in the store.
C6_Witness ==
  /\ last.op = "copy_caption_file"
  /\ ~last.ok
  /\ last.err = "ValueError"
  /\ SrcExists(last.src)
  /\ ~HasKey(id_to_info, last.id)
  /\ ThumbFile(last.id, ".jpg") \in DOMAIN files
  /\ id_to_info # <<>>

\* C7 (as claimed): both thumbnail lookups return thumbnails/<id>.jpg exactly
\* when the id is in the registry, whatever lies on disk.
C7_ThumbnailLookupsFollowRegistry ==
  phase = "live" =>
    \A image_id \in ProbeIds :
      LET expected == IF HasKey(id_to_info, image_id)
                      THEN ThumbFile(image_id, ".jpg") ELSE Absent
      IN  /\ get_thumbnail_path_by_id(image_id) = expected
          /\ get_relative_thumbnail_path(image_id) = expected

\* C7 (amended): get_relative_thumbnail_path follows the registry alone;
\* get_thumbnail_path_by_id follows the disk alone: it returns
\* thumbnails/<id>.jpg exactly when that file exists.
C7_ThumbnailLookups ==
  phase = "live" =>
    \A image_id \in ProbeIds :
      /\ get_relative_thumbnail_path(image_id) =
           IF HasKey(id_to_info, image_id) THEN ThumbFile(image_id, ".jpg") ELSE Absent
      /\ get_thumbnail_path_by_id(image_id) =
           IF ThumbFile(image_id, ".jpg") \in DOMAIN files
           THEN ThumbFile(image_id, ".jpg") ELSE Absent

\* C7 witness: a record without a thumbnail file, a thumbnail file without a
\* record, and a record with its thumbnail, all at once.
C7_Witness ==
  /\ phase = "live"
  /\ \E x, y, z \in ProbeIds :
       /\ HasKey(id_to_info, x) /\ ThumbFile(x, ".jpg") \notin DOMAIN files
       /\ ~HasKey(id_to_info, y) /\ ThumbFile(y, ".jpg") \in DOMAIN files
       /\ HasKey(id_to_info, z) /\ ThumbFile(z, ".jpg") \in DOMAIN files

\* The recognized image suffixes (.jpg, .jpeg, .png in any case) among the
\* suffixes that occur here.
RecognizedSuffixes == {".jpg", ".jpeg", ".png", ".JPG", ".JPEG", ".PNG"}

\* Files of the group folders that carry a recognized image suffix.
RecognizedFiles ==
  {p \in DOMAIN files : p.top = "images" /\ p.e \in RecognizedSuffixes}

\* The sibling caption of images/<group>/<stem>.*: <stem>.txt if it exists,
\* else <stem>.caption if it exists, else None.
SiblingCaption(group, stem) ==
  IF ImageFile(group, stem, ".txt") \in DOMAIN files
  THEN ImageFile(group, stem, ".txt")
  ELSE IF ImageFile(group, stem, ".caption") \in DOMAIN files
  THEN ImageFile(group, stem, ".caption")
  ELSE Absent

\* C8 (as claimed): the scan of an existing tree yields exactly one record per
\* recognized image file of the group folders; get_image_path resolves to the
\* file and get_caption_path to its sibling caption.
C8_OneRecordPerImageFile ==
  (phase = "live" /\ last.op = "construct") =>
    /\ Len(id_to_info) = Cardinality(RecognizedFiles)
    /\ \A p \in RecognizedFiles :
         /\ get_image_path(p.s) = p
         /\ get_caption_path(p.s) = SiblingCaption(p.g, p.s)

\* C8 (amended): the scan yields exactly one record per distinct stem of the
\* recognized image files; each record resolves to a recognized image file of
\* that stem and to that file's sibling caption; a file whose stem no other
\* recognized image file shares is the one its record resolves to.
C8_OneRecordPerStem ==
  (phase = "live" /\ last.op = "construct") =>
    /\ Range(get_all_images) = {p.s : p \in RecognizedFiles}
    /\ Len(id_to_info) = Cardinality({p.s : p \in RecognizedFiles})
    /\ \A i \in DOMAIN id_to_info :
         LET image_id == id_to_info[i].image_id IN
         /\ get_image_path(image_id) \in RecognizedFiles
         /\ get_image_path(image_id).g = id_to_info[i].group_name
         /\ get_caption_path(image_id) =
              SiblingCaption(id_to_info[i].group_name, image_id)
    /\ \A p \in RecognizedFiles :
         (\A q \in RecognizedFiles : q.s = p.s => q = p) => get_image_path(p.s) = p

\* C8 witness: a scan that met two image files of one stem, a third of
\* another, a .caption sibling, a .gif and a file outside the group folders.
C8_Witness ==
  /\ phase = "live" /\ last.op = "construct"
  /\ Cardinality(RecognizedFiles) = 3
  /\ Len(id_to_info) = 2
  /\ \E i \in DOMAIN id_to_info :
       /\ id_to_info[i].caption_extension = ".caption"
       /\ id_to_info[i].image_extension = ".PNG"
  /\ ImageFile("g", "c", ".gif") \in DOMAIN files
  /\ loose # {}

\* C9 (as claimed): with a working store and a folder whose matching regular
\* files are images, add_images_from_folder returns one id per matching
\* regular file, in listing order, and raises for nothing else in the folder.
C9_OneIdPerMatchingFile ==
  (last.op = "add_images_from_folder" /\ thumbnail_dir) =>
    LET regular == SelectSeq(last.src.o, LAMBDA p : SrcEntry(p).t = "file") IN
    /\ last.ok
    /\ Len(last.ret) = Len(regular)
    /\ \A i \in DOMAIN last.ret : <<last.ret[i], regular[i]>> \in Range(ingested)

\* One failed call: add_image leaves the registry as it was; a missing source
\* fails with FileNotFoundError before anything is created; a later failure
\* leaves no record for the new id.  The same for the add_image calls made by
\* add_images_from_folder.
C10_Step ==
  /\ (last'.op = "add_image" /\ ~last'.ok) =>
       /\ id_to_info' = id_to_info
       /\ ~SrcExists(last'.src) =>
            /\ last'.err = "FileNotFoundError"
            /\ UNCHANGED <<files, groups, uuids>>
       /\ SrcExists(last'.src) =>
            /\ uuids' = uuids + 1
            /\ ~HasKey(id_to_info', UuidPool[uuids'])
  /\ (last'.op = "add_images_from_folder" /\ ~last'.ok) =>
       /\ Len(id_to_info') = Len(id_to_info) + Len(last'.added)
       /\ SubSeq(id_to_info', 1, Len(id_to_info)) = id_to_info
       /\ ~HasKey(id_to_info', UuidPool[uuids'])

\* C10: every failed add_image leaves the registry unchanged, and a missing
\* source fails before anything is created.
C10_FailedAddLeavesRegistry == [][C10_Step]_vars

\* C10 witness: add_image raised after the copy: the registry holds an older
\* record, and the copied image lies on disk without a record.
C10_Witness ==
  /\ last.op = "add_image"
  /\ ~last.ok
  /\ id_to_info # <<>>
  /\ \E p \in DOMAIN files :
       /\ p.top = "images"
       /\ p.s = UuidPool[uuids]
       /\ ~HasKey(id_to_info, p.s)

\* The caption add_image is to pick beside the source: <stem>.txt if the
\* source folder holds it, else <stem>.caption if it holds that, else None.
SourceSibling(source) ==
  IF SrcExists([d |-> source.d, s |-> source.s, e |-> ".txt"]) THEN ".txt"
  ELSE IF SrcExists([d |-> source.d, s |-> source.s, e |-> ".caption"]) THEN ".caption"
  ELSE NONE

\* What one returned add_image(source, match_caption) leaves for its id.
C11_Ingested(image_id, source, match_caption) ==
  LET info == get_info_by_id(image_id)
      ext == SourceSibling(source)
  IN  IF match_caption /\ ext # NONE
      THEN /\ info.caption_extension = ext
           /\ get_caption_path(image_id) = ImageFile(source.s, image_id, ext)
           /\ ImageFile(source.s, image_id, ext) \in DOMAIN files
           /\ files[ImageFile(source.s, image_id, ext)] =
                SrcEntry([d |-> source.d, s |-> source.s, e |-> ext]).c
           /\ \A e \in Range(CaptionExtensions) \ {ext} :
                ImageFile(source.s, image_id, e) \notin DOMAIN files
      ELSE /\ info.caption_extension = NONE
           /\ get_caption_path(image_id) = Absent
           /\ \A e \in Range(CaptionExtensions) :
                ImageFile(source.s, image_id, e) \notin DOMAIN files

\* C11: add_image(source, match_caption) that returned: with match_caption and
\* a sibling <stem>.txt or <stem>.caption beside the source, the first of the
\* two that exists is copied to images/<group>/<id><its suffix> and is the
\* record's caption extension; otherwise no caption file exists for the id,
\* the caption extension is None and get_caption_path(id) is absent.  The
\* same for every add_image made by add_images_from_folder.
C11_MatchCaption ==
  /\ (last.op = "add_image" /\ last.ok) =>
       C11_Ingested(last.id, last.src, last.match)
  /\ last.op = "add_images_from_folder" =>
       \A i \in DOMAIN last.added :
         \E k \in DOMAIN ingested :
           /\ ingested[k][1] = last.added[i]
           /\ C11_Ingested(last.added[i], ingested[k][2], last.src.c)

\* C11 witness: add_image with match_caption returned for a source that has
\* both siblings and took the .txt one, after an add_image of a source with
\* siblings that was told not to match.
C11_Witness ==
  /\ last.op = "add_image" /\ last.ok /\ last.match
  /\ {".txt", ".caption"} \subseteq SrcSuffixes(last.src.d, last.src.s)
  /\ get_info_by_id(last.id).caption_extension = ".txt"
  /\ files[get_caption_path(last.id)] = "T1"
  /\ Len(id_to_info) = 2
  /\ id_to_info[1].caption_extension = NONE
  /\ SourceSibling(ingested[1][2]) # NONE

\* One restart: the new registry has the identifiers of the old one, each
\* with the same group name, image extension and caption extension.
C12_Step ==
  last'.op = "restart" =>
    /\ Range(Keys(id_to_info')) = Range(Keys(id_to_info))
    /\ \A image_id \in Range(Keys(id_to_info)) :
         HasKey(id_to_info', image_id) =>
           LET before == get_info_by_id_in(id_to_info, image_id)
               after == get_info_by_id_in(id_to_info', image_id)
           IN  /\ after.group_name = before.group_name
               /\ after.image_extension = before.image_extension
               /\ after.caption_extension = before.caption_extension

\* C12 (as claimed): after calls that all returned, constructing a new
\* DatasetManager over the same root yields the same identifiers, each with
\* the group name, image extension and caption extension it had.
C12_RestartPreservesRegistry == [][C12_Step]_vars

\* An existing regular file that PIL decodes.
ValidImage(p) ==
  /\ SrcExists(p)
  /\ SrcEntry(p).t = "file"
  /\ SrcEntry(p).c \in Decodable

\* C13 (as claimed): constructing a DatasetManager never raises and leaves
\* the root, images/ and thumbnails/ existing, whatever the root held before,
\* and every add_image of an existing valid image after it returns.
C13_ConstructAlwaysReady ==
  /\ phase # "crashed"
  /\ last.op = "construct" =>
       /\ last.ok
       /\ base_dir /\ image_dir /\ thumbnail_dir
  /\ (last.op = "add_image" /\ ValidImage(last.src)) => last.ok

\* The image files the returned add_image calls of an ImageManager made.
IngestedImageFiles ==
  {BaseFile(ingested[i][2].s, ingested[i][1], ".jpg") : i \in DOMAIN ingested}

\* One restart of an ImageManager all of whose add_image calls that copied a
\* file returned: the new registry's paths are the ingested image files, one
\* entry each, as many as before, and none lies in thumbnails/.
C14_Step ==
  (last'.op = "restart" /\ CopiedImages = IngestedImageFiles) =>
    /\ {id_to_info'[i].path : i \in DOMAIN id_to_info'} = IngestedImageFiles
    /\ Len(id_to_info') = Cardinality(IngestedImageFiles)
    /\ Len(ImageManager_get_all_images') = Len(ImageManager_get_all_images)
    /\ \A i \in DOMAIN id_to_info' : id_to_info'[i].path.top # "thumbnails"

\* C14 (as claimed): constructing a new ImageManager over the base directory
\* of an earlier one registers exactly the ingested image files, so
\* get_all_images is as long as before, and never a file of thumbnails/.
C14_RestartKeepsImages == [][C14_Step]_vars

====
